---- MODULE Spec2Model ----
(***************************************************************************)
(* strkit (src/src/index.ts): a library of pure string functions.          *)
(*                                                                         *)
(* A JavaScript string is a sequence of 16-bit code units; it is modelled  *)
(* as a TLA+ sequence of naturals below 65536.  A regular expression with  *)
(* the u flag, toLowerCase, toUpperCase and the string iterator read the   *)
(* string by code point (a high surrogate directly followed by a low       *)
(* surrogate is one code point, any other unit is a code point of its      *)
(* own); length, charAt, [i], slice, substring, padStart and padEnd work   *)
(* on code units.                                                          *)
(*                                                                         *)
(* Each library function is an operator named as in the source.  A state   *)
(* of the model is a call in progress: the arguments the caller passed,    *)
(* the functions applied so far (each to the result of the one before)     *)
(* and their results.                                                      *)
(***************************************************************************)
EXTENDS Integers, Sequences, FiniteSets, TLC

VARIABLES str, length, chars, args, value, calls, rets

vars == <<str, length, chars, args, value, calls, rets>>

(***************************************************************************)
(* Code units and code points                                              *)
(***************************************************************************)

\* a lead (high) surrogate unit, D800..DBFF
IsHighSurrogate(u) == u \in 55296..56319

\* a trail (low) surrogate unit, DC00..DFFF
IsLowSurrogate(u) == u \in 56320..57343

\* s[i] and s[i+1] form a surrogate pair
IsPairAt(s, i) ==
  /\ i < Len(s)
  /\ IsHighSurrogate(s[i])
  /\ IsLowSurrogate(s[i + 1])

\* number of code units of the code point that starts at unit i
WidthAt(s, i) == IF IsPairAt(s, i) THEN 2 ELSE 1

\* the code point that starts at unit i (a lone surrogate is its own value)
CodePointAt(s, i) ==
  IF IsPairAt(s, i)
  THEN 65536 + (s[i] - 55296) * 1024 + (s[i + 1] - 56320)
  ELSE s[i]

\* UTF-16 encoding of one code point
Encode(c) ==
  IF c >= 65536
  THEN <<55296 + ((c - 65536) \div 1024), 56320 + ((c - 65536) % 1024)>>
  ELSE <<c>>

\* concatenation of a sequence of strings with a joiner: Array.prototype.join
RECURSIVE Join(_, _)
Join(list, sep) ==
  IF list = <<>> THEN <<>>
  ELSE IF Len(list) = 1 THEN list[1]
  ELSE list[1] \o sep \o Join(Tail(list), sep)

\* str.slice(n) / str.substring(n) for 0 <= n
SliceFrom(s, n) == IF n >= Len(s) THEN <<>> ELSE SubSeq(s, n + 1, Len(s))

\* str.charAt(n): the code unit at n as a string, "" when out of range
CharAt(s, n) == IF n < Len(s) THEN <<s[n + 1]>> ELSE <<>>

(***************************************************************************)
(* Unicode data, restricted to the code points the model's alphabets and   *)
(* the case mappings of those code points can produce.                     *)
(*   A-Z 65..90, a-z 97..122, 0-9 48..57                                   *)
(*   U+0130 (304)  LATIN CAPITAL LETTER I WITH DOT ABOVE, Lu; its lower    *)
(*                 case is the two code points U+0069 U+0307               *)
(*   U+0307 (775)  COMBINING DOT ABOVE, Mn                                 *)
(*   U+4E2D (20013) a CJK ideograph, Lo                                    *)
(*   U+10400..U+10427 (66560..66599) Deseret capital letters, Lu           *)
(*   U+10428..U+1044F (66600..66639) Deseret small letters, Ll             *)
(*   U+1F525 (128293) FIRE, Emoji_Presentation and Extended_Pictographic   *)
(***************************************************************************)

\* \p{Lu}
IsLu(c) == c \in 65..90 \/ c = 304 \/ c \in 66560..66599

\* \p{Ll}
IsLl(c) == c \in 97..122 \/ c \in 66600..66639

\* \p{L}
IsL(c) == IsLu(c) \/ IsLl(c) \/ c = 20013

\* [0-9]
IsDigit(c) == c \in 48..57

\* \p{Emoji_Presentation}
IsEmojiPresentation(c) == c = 128293

\* \p{Extended_Pictographic}
IsExtendedPictographic(c) == c = 128293

\* lower case of one code point, as a sequence of code points
LowerOf(c) ==
  IF c \in 65..90 THEN <<c + 32>>
  ELSE IF c = 304 THEN <<105, 775>>
  ELSE IF c \in 66560..66599 THEN <<c + 40>>
  ELSE <<c>>

\* upper case of one code point, as a sequence of code points
UpperOf(c) ==
  IF c \in 97..122 THEN <<c - 32>>
  ELSE IF c \in 66600..66639 THEN <<c - 40>>
  ELSE <<c>>

RECURSIVE EncodeAll(_)
EncodeAll(cps) ==
  IF cps = <<>> THEN <<>> ELSE Encode(Head(cps)) \o EncodeAll(Tail(cps))

RECURSIVE LowerFrom(_, _)
LowerFrom(s, i) ==
  IF i > Len(s) THEN <<>>
  ELSE EncodeAll(LowerOf(CodePointAt(s, i))) \o LowerFrom(s, i + WidthAt(s, i))

\* String.prototype.toLowerCase
toLowerCase(s) == LowerFrom(s, 1)

RECURSIVE UpperFrom(_, _)
UpperFrom(s, i) ==
  IF i > Len(s) THEN <<>>
  ELSE EncodeAll(UpperOf(CodePointAt(s, i))) \o UpperFrom(s, i + WidthAt(s, i))

\* String.prototype.toUpperCase
toUpperCase(s) == UpperFrom(s, 1)

(***************************************************************************)
(* CASE_SPLIT_PATTERN and words                                            *)
(***************************************************************************)

\* membership of a code point in a character class of the pattern
InClass(cls, c) ==
  CASE cls = "Lu" -> IsLu(c)
    [] cls = "Ll" -> IsLl(c)
    [] cls = "Digit" -> IsDigit(c)
    [] cls = "L" -> IsL(c)

\* first unit index after the longest run of cls code points that starts at
\* unit i (i itself when the run is empty): the greedy match of cls*
RECURSIVE RunEnd(_, _, _)
RunEnd(cls, s, i) ==
  IF i <= Len(s) /\ InClass(cls, CodePointAt(s, i))
  THEN RunEnd(cls, s, i + WidthAt(s, i))
  ELSE i

\* Each alternative: the unit index after its match at unit i, 0 if it does
\* not match there.

\* \p{Lu}?\p{Ll} , the + lost: one lower-case letter only
AltCapitalized_OneLower(s, i) ==
  LET afterLu == IF i <= Len(s) /\ IsLu(CodePointAt(s, i))
                 THEN i + WidthAt(s, i) ELSE i
  IN IF afterLu <= Len(s) /\ IsLl(CodePointAt(s, afterLu))
     THEN afterLu + WidthAt(s, afterLu)
     ELSE IF i <= Len(s) /\ IsLl(CodePointAt(s, i)) THEN i + WidthAt(s, i)
     ELSE 0

\* \p{Lu}?\p{Ll}+ : the optional capital is taken when lower case follows it
AltCapitalized(s, i) ==
  LET afterLu == IF i <= Len(s) /\ IsLu(CodePointAt(s, i))
                 THEN i + WidthAt(s, i) ELSE i
      withLu == RunEnd("Ll", s, afterLu)
      without == RunEnd("Ll", s, i)
  IN IF withLu > afterLu THEN withLu
     ELSE IF without > i THEN without
     ELSE 0

\* [0-9]+
AltDigits(s, i) ==
  LET e == RunEnd("Digit", s, i) IN IF e > i THEN e ELSE 0

\* unit index at which the last capital of the run s[i..e-1] starts, i < e
RECURSIVE LastStart(_, _, _)
LastStart(s, i, e) ==
  IF i + WidthAt(s, i) >= e THEN i ELSE LastStart(s, i + WidthAt(s, i), e)

\* \p{Lu}+ , the lookahead lost: the whole run of capitals
AltAcronym_NoLookahead(s, i) ==
  LET e == RunEnd("Lu", s, i) IN IF e > i THEN e ELSE 0

\* \p{Lu}+(?!\p{Ll}) : the longest run of capitals not followed by lower
\* case; the run gives back its last capital when lower case follows
AltAcronym(s, i) ==
  LET e == RunEnd("Lu", s, i)
      followed == e <= Len(s) /\ IsLl(CodePointAt(s, e))
  IN IF e = i THEN 0
     ELSE IF ~followed THEN e
     ELSE IF LastStart(s, i, e) > i THEN LastStart(s, i, e)
     ELSE 0

\* \p{Emoji_Presentation} : one code point
AltEmojiPresentation(s, i) ==
  IF i <= Len(s) /\ IsEmojiPresentation(CodePointAt(s, i))
  THEN i + WidthAt(s, i) ELSE 0

\* \p{Extended_Pictographic} : one code point
AltExtendedPictographic(s, i) ==
  IF i <= Len(s) /\ IsExtendedPictographic(CodePointAt(s, i))
  THEN i + WidthAt(s, i) ELSE 0

\* the last alternative lost
AltLetters_Dropped(s, i) == 0

\* \p{L}+
AltLetters(s, i) ==
  LET e == RunEnd("L", s, i) IN IF e > i THEN e ELSE 0

\* the pattern at unit i: the first alternative, in the order written, that
\* matches there; 0 when none does
MatchAt(s, i) ==
  IF AltCapitalized(s, i) # 0 THEN AltCapitalized(s, i)
  ELSE IF AltDigits(s, i) # 0 THEN AltDigits(s, i)
  ELSE IF AltAcronym(s, i) # 0 THEN AltAcronym(s, i)
  ELSE IF AltEmojiPresentation(s, i) # 0 THEN AltEmojiPresentation(s, i)
  ELSE IF AltExtendedPictographic(s, i) # 0 THEN AltExtendedPictographic(s, i)
  ELSE AltLetters(s, i)

\* str.match(pattern) with the g and u flags: all matches from unit i on,
\* left to right; after a failure the scan advances by one code point
RECURSIVE MatchAllFrom(_, _)
MatchAllFrom(s, i) ==
  IF i > Len(s) THEN <<>>
  ELSE IF MatchAt(s, i) # 0
       THEN <<SubSeq(s, i, MatchAt(s, i) - 1)>> \o MatchAllFrom(s, MatchAt(s, i))
       ELSE MatchAllFrom(s, i + WidthAt(s, i))

words(s) == MatchAllFrom(s, 1)

(***************************************************************************)
(* The case converters                                                     *)
(***************************************************************************)

capitalize(s) == toUpperCase(CharAt(s, 0)) \o toLowerCase(SliceFrom(s, 1))

RECURSIVE MapCapitalize(_)
MapCapitalize(list) ==
  IF list = <<>> THEN <<>>
  ELSE <<capitalize(Head(list))>> \o MapCapitalize(Tail(list))

RECURSIVE MapLower(_)
MapLower(list) ==
  IF list = <<>> THEN <<>>
  ELSE <<toLowerCase(Head(list))>> \o MapLower(Tail(list))

RECURSIVE MapUpper(_)
MapUpper(list) ==
  IF list = <<>> THEN <<>>
  ELSE <<toUpperCase(Head(list))>> \o MapUpper(Tail(list))

\* the first word left as it is
camelCase_FirstKept(s) ==
  LET wordList == words(s)
  IN IF Len(wordList) = 0 THEN <<>>
     ELSE Head(wordList) \o Join(MapCapitalize(Tail(wordList)), <<>>)

camelCase(s) ==
  LET wordList == words(s)
  IN IF Len(wordList) = 0 THEN <<>>
     ELSE toLowerCase(Head(wordList)) \o Join(MapCapitalize(Tail(wordList)), <<>>)

\* "_"
constantCase(s) == Join(MapUpper(words(s)), <<95>>)

\* "-"
kebabCase(s) == Join(MapLower(words(s)), <<45>>)

\* " "
lowerCase(s) == Join(MapLower(words(s)), <<32>>)

pascalCase(s) == Join(MapCapitalize(words(s)), <<>>)

snakeCase(s) == Join(MapLower(words(s)), <<95>>)

upperCase(s) == Join(MapUpper(words(s)), <<32>>)

\* WhiteSpace and LineTerminator code units: what trim, trimStart and
\* trimEnd of String.prototype strip
IsWhiteSpace(u) ==
  \/ u \in 9..13
  \/ u \in {32, 160, 5760, 8232, 8233, 8239, 8287, 12288, 65279}
  \/ u \in 8192..8202

\* String.prototype.trimStart
RECURSIVE nativeTrimStart(_)
nativeTrimStart(s) ==
  IF s # <<>> /\ IsWhiteSpace(Head(s)) THEN nativeTrimStart(Tail(s)) ELSE s

\* String.prototype.trimEnd
RECURSIVE nativeTrimEnd(_)
nativeTrimEnd(s) ==
  IF s # <<>> /\ IsWhiteSpace(s[Len(s)])
  THEN nativeTrimEnd(SubSeq(s, 1, Len(s) - 1)) ELSE s

\* String.prototype.trim
nativeTrim(s) == nativeTrimStart(nativeTrimEnd(s))

\* the loop of startCase from word i on, result being what it has built
RECURSIVE StartCaseLoop(_, _, _)
StartCaseLoop(wordList, i, result) ==
  IF i > Len(wordList) THEN result
  ELSE LET word == wordList[i]
           spaced == IF result # <<>> THEN result \o <<32>> ELSE result
       IN StartCaseLoop(wordList, i + 1,
            spaced \o toUpperCase(CharAt(word, 0)) \o toLowerCase(SliceFrom(word, 1)))

startCase(s) == StartCaseLoop(words(nativeTrim(s)), 1, <<>>)

(***************************************************************************)
(* escape                                                                  *)
(***************************************************************************)

\* the keys of htmlEscapes, the class [&<>"'] of the pattern
IsEscaped(u) == u \in {38, 60, 62, 34, 39}

\* the table with the entry of ' lost
htmlEscapes_NoApostrophe(u) ==
  CASE u = 38 -> <<38, 97, 109, 112, 59>>
    [] u = 60 -> <<38, 108, 116, 59>>
    [] u = 62 -> <<38, 103, 116, 59>>
    [] u = 34 -> <<38, 113, 117, 111, 116, 59>>
    [] u = 39 -> <<39>>

\* htmlEscapes[match]: &amp; &lt; &gt; &quot; &#39;
htmlEscapes(u) ==
  CASE u = 38 -> <<38, 97, 109, 112, 59>>
    [] u = 60 -> <<38, 108, 116, 59>>
    [] u = 62 -> <<38, 103, 116, 59>>
    [] u = 34 -> <<38, 113, 117, 111, 116, 59>>
    [] u = 39 -> <<38, 35, 51, 57, 59>>

\* str.replace(/[&<>"']/g, ...) from unit i on: each match replaced by what
\* the callback returns, the units between matches copied
RECURSIVE ReplaceFrom(_, _)
ReplaceFrom(s, i) ==
  IF i > Len(s) THEN <<>>
  ELSE (IF IsEscaped(s[i]) THEN htmlEscapes(s[i]) ELSE <<s[i]>>)
       \o ReplaceFrom(s, i + 1)

escape(s) == ReplaceFrom(s, 1)

(***************************************************************************)
(* pad                                                                     *)
(***************************************************************************)

\* the first n units of fill repeated: the filler of padStart and padEnd
Filler(fill, n) == [k \in 1..n |-> fill[((k - 1) % Len(fill)) + 1]]

\* String.prototype.padStart(targetLength, padString)
padStart(s, targetLength, fill) ==
  IF targetLength <= Len(s) \/ fill = <<>> THEN s
  ELSE Filler(fill, targetLength - Len(s)) \o s

\* String.prototype.padEnd(targetLength, padString)
padEnd(s, targetLength, fill) ==
  IF targetLength <= Len(s) \/ fill = <<>> THEN s
  ELSE s \o Filler(fill, targetLength - Len(s))

\* the odd character of the padding put at the start
pad_ExtraAtStart(s, len, fill) ==
  padEnd(padStart(s, ((len - Len(s) + 1) \div 2) + Len(s), fill), len, fill)

\* padEnd left out
pad_NoPadEnd(s, len, fill) ==
  padStart(s, ((len - Len(s)) \div 2) + Len(s), fill)

\* fill is chars, " " when chars is left out
pad(s, len, fill) ==
  padEnd(padStart(s, ((len - Len(s)) \div 2) + Len(s), fill), len, fill)

(***************************************************************************)
(* trimEnd, trimStart, trim.  chars is Undefined, a string                  *)
(* [kind |-> "string"] or an array of strings [kind |-> "array"].          *)
(***************************************************************************)

\* a returned string
StringRet(s) == [type |-> "string", val |-> s]

\* a returned array of strings
ArrayRet(list) == [type |-> "array", val |-> list]

\* throw new Error(...)
ErrorRet == [type |-> "error", val |-> <<>>]

\* the chars parameter left out
Undefined == [kind |-> "undefined", val |-> <<>>]

StringArg(s) == [kind |-> "string", val |-> s]

ArrayArg(list) == [kind |-> "array", list |-> list]

\* str[i] === chars for a string, chars.includes(str[i]) for an array
\* (u is the code unit str[i])
TrimMatches(c, u) ==
  IF c.kind = "string" THEN c.val = <<u>>
  ELSE \E k \in 1..Len(c.list) : c.list[k] = <<u>>

\* the while loop of trimEnd: endIndex when it stops
RECURSIVE EndIndex(_, _, _)
EndIndex(s, c, endIndex) ==
  IF endIndex > 0 /\ TrimMatches(c, s[endIndex])
  THEN EndIndex(s, c, endIndex - 1) ELSE endIndex

\* the length check made before the switch, for an array too
trimEnd_CheckBeforeSwitch(s, c) ==
  IF c = Undefined THEN StringRet(nativeTrimEnd(s))
  ELSE IF Len(IF c.kind = "string" THEN c.val ELSE c.list) # 1 THEN ErrorRet
  ELSE StringRet(SubSeq(s, 1, EndIndex(s, c, Len(s))))

trimEnd(s, c) ==
  IF c = Undefined THEN StringRet(nativeTrimEnd(s))
  ELSE IF c.kind = "string" /\ Len(c.val) # 1 THEN ErrorRet
  ELSE StringRet(SubSeq(s, 1, EndIndex(s, c, Len(s))))

\* the while loop of trimStart: startIndex (from 0) when it stops
RECURSIVE StartIndex(_, _, _)
StartIndex(s, c, startIndex) ==
  IF startIndex < Len(s) /\ TrimMatches(c, s[startIndex + 1])
  THEN StartIndex(s, c, startIndex + 1) ELSE startIndex

\* an if where the while is: at most one character removed
trimStart_Once(s, c) ==
  IF c = Undefined THEN StringRet(nativeTrimStart(s))
  ELSE IF 0 < Len(s) /\ TrimMatches(c, s[1]) THEN StringRet(SliceFrom(s, 1))
  ELSE StringRet(s)

trimStart(s, c) ==
  IF c = Undefined THEN StringRet(nativeTrimStart(s))
  ELSE StringRet(SliceFrom(s, StartIndex(s, c, 0)))

\* only the start trimmed
trim_StartOnly(s, c) ==
  IF c = Undefined THEN StringRet(nativeTrimStart(s))
  ELSE trimStart(s, c)

trim(s, c) ==
  IF c = Undefined THEN StringRet(nativeTrim(s))
  ELSE IF trimEnd(s, c).type = "error" THEN trimEnd(s, c)
  ELSE trimStart(trimEnd(s, c).val, c)

(***************************************************************************)
(* reverseString                                                           *)
(***************************************************************************)

\* [...value]: the string split by its iterator, one string per code point
RECURSIVE Spread(_, _)
Spread(s, i) ==
  IF i > Len(s) THEN <<>>
  ELSE <<SubSeq(s, i, i + WidthAt(s, i) - 1)>> \o Spread(s, i + WidthAt(s, i))

\* Array.prototype.reverse
Reverse(list) == [k \in 1..Len(list) |-> list[Len(list) + 1 - k]]

\* the last element of the reversed array lost
reverseString_DropsLast(s) ==
  LET r == Reverse(Spread(s, 1))
  IN Join(SubSeq(r, 1, Len(r) - 1), <<>>)

reverseString(s) == Join(Reverse(Spread(s, 1)), <<>>)

(***************************************************************************)
(* Values of any type: the arguments of sprintf and the parameter of       *)
(* toSnakeCase and convertKeysWithBoth.  An object is the sequence of its  *)
(* <<key, value>> entries in insertion order, the order of Object.keys     *)
(* for keys that are not array indices.                                    *)
(***************************************************************************)
UndefinedValue == [kind |-> "undefined"]

NullValue == [kind |-> "null"]

NumberValue(n) == [kind |-> "number", num |-> n]

StringValue(s) == [kind |-> "string", val |-> s]

DateValue == [kind |-> "date"]

ArrayValue(items) == [kind |-> "array", items |-> items]

ObjectValue(entries) == [kind |-> "object", entries |-> entries]

ValueRet(v) == [type |-> "value", val |-> v]

(***************************************************************************)
(* sprintf                                                                 *)
(***************************************************************************)
\* decimal digits of a natural number
RECURSIVE Digits(_)
Digits(n) == IF n < 10 THEN <<48 + n>> ELSE Digits(n \div 10) \o <<48 + (n % 10)>>

\* String(v) for undefined, a string and an integer
String(v) ==
  IF v.kind = "undefined" THEN <<117, 110, 100, 101, 102, 105, 110, 101, 100>>
  ELSE IF v.kind = "string" THEN v.val
  ELSE IF v.num < 0 THEN <<45>> \o Digits(-v.num)
  ELSE Digits(v.num)

\* /%[sdv]/ matches at unit p
IsSpecifierAt(format, p) ==
  /\ p + 1 <= Len(format)
  /\ format[p] = 37
  /\ format[p + 1] \in {115, 100, 118}

\* a[i], undefined past the end (i counts from 0)
ArgAt(a, i) == IF i < Len(a) THEN a[i + 1] ELSE UndefinedValue

\* format.replace(/%[sdv]/g, (_) => String(args[i++])) from unit p on
RECURSIVE ReplaceSpecifiers(_, _, _, _)
ReplaceSpecifiers(format, p, a, i) ==
  IF p > Len(format) THEN <<>>
  ELSE IF IsSpecifierAt(format, p)
  THEN String(ArgAt(a, i)) \o ReplaceSpecifiers(format, p + 2, a, i + 1)
  ELSE <<format[p]>> \o ReplaceSpecifiers(format, p + 1, a, i)

sprintf(format, a) == ReplaceSpecifiers(format, 1, a, 0)

(***************************************************************************)
(* toSnakeCase and convertKeysWithBoth                                     *)
(***************************************************************************)
Entry(key, v) == [key |-> key, value |-> v]

\* acc[key] = v: the entry of an existing key is overwritten where it is, a
\* new key is added at the end
Put(acc, key, v) ==
  IF \E k \in 1..Len(acc) : acc[k].key = key
  THEN [k \in 1..Len(acc) |-> IF acc[k].key = key THEN Entry(key, v) ELSE acc[k]]
  ELSE Append(acc, Entry(key, v))

\* key.replace(/([A-Z])/g, "_$1")
RECURSIVE UnderscoreCapitals(_)
UnderscoreCapitals(key) ==
  IF key = <<>> THEN <<>>
  ELSE (IF Head(key) \in 65..90 THEN <<95, Head(key)>> ELSE <<Head(key)>>)
       \o UnderscoreCapitals(Tail(key))

\* key.replace(/([A-Z])/g, "_$1").toLowerCase()
snakeKey(key) == toLowerCase(UnderscoreCapitals(key))

\* key.replace(/_([a-z])/g, (_, letter) => letter.toUpperCase()) from unit p
RECURSIVE UpperAfterUnderscore(_, _)
UpperAfterUnderscore(key, p) ==
  IF p > Len(key) THEN <<>>
  ELSE IF key[p] = 95 /\ p + 1 <= Len(key) /\ key[p + 1] \in 97..122
  THEN toUpperCase(<<key[p + 1]>>) \o UpperAfterUnderscore(key, p + 2)
  ELSE <<key[p]>> \o UpperAfterUnderscore(key, p + 1)

camelKey(key) == UpperAfterUnderscore(key, 1)

RECURSIVE toSnakeCase(_)
RECURSIVE SnakeReduce(_, _)
\* the reduce of toSnakeCase over the entries left, acc so far
SnakeReduce(entries, acc) ==
  IF entries = <<>> THEN acc
  ELSE SnakeReduce(Tail(entries),
                   Put(acc, snakeKey(Head(entries).key),
                       toSnakeCase(Head(entries).value)))

toSnakeCase(v) ==
  IF v.kind \notin {"array", "object"} THEN v
  ELSE IF v.kind = "array"
  THEN ArrayValue([k \in 1..Len(v.items) |-> toSnakeCase(v.items[k])])
  ELSE ObjectValue(SnakeReduce(v.entries, <<>>))

\* Object.keys(source) with the values: a Date has no own keys
OwnEntries(obj) == IF obj.kind = "object" THEN obj.entries ELSE <<>>

RECURSIVE convertKeysWithBoth(_)
\* one step of the reduce of convertKeysWithBoth
BothStep(acc, key, v) ==
  LET plain == Put(Put(Put(acc, key, v), snakeKey(key), v), camelKey(key), v)
  IN IF v.kind \in {"array", "object"}
     THEN Put(Put(plain, key, convertKeysWithBoth(v)),
              camelKey(key), convertKeysWithBoth(v))
     ELSE plain

RECURSIVE BothReduce(_, _)
BothReduce(entries, acc) ==
  IF entries = <<>> THEN acc
  ELSE BothReduce(Tail(entries),
                  BothStep(acc, Head(entries).key, Head(entries).value))

convertKeysWithBoth(obj) ==
  IF obj.kind = "array"
  THEN ArrayValue([k \in 1..Len(obj.items) |-> convertKeysWithBoth(obj.items[k])])
  ELSE IF obj.kind \in {"object", "date"}
  THEN ObjectValue(BothReduce(OwnEntries(obj), <<>>))
  ELSE obj

(***************************************************************************)
(* Calls.  The caller passes str (and, to pad and the trim functions,      *)
(* length and chars) to a function of the library, and may pass the string *)
(* a call returned on to the next call.  calls lists the functions called  *)
(* so far, rets what each returned.                                        *)
(***************************************************************************)

\* all strings of at most n characters of the alphabet A (a character is
\* the string of its one or two code units)
RECURSIVE StringsOf(_, _)
StringsOf(A, n) ==
  IF n = 0 THEN {<<>>}
  ELSE LET shorter == StringsOf(A, n - 1)
       IN shorter \cup {s \o a : s \in shorter, a \in A}

MaxWordsLen == 4
MaxCaseLen == 3
MaxCalls == 2

\* "A", "a", "1", "_", U+1F525 FIRE, U+4E2D, a lone high surrogate D83D,
\* U+10400 and U+10428 (a Deseret capital and a Deseret small letter)
WordsAlphabet ==
  {<<65>>, <<97>>, <<49>>, <<95>>, <<55357, 56613>>, <<20013>>, <<55357>>,
   <<55297, 56320>>, <<55297, 56360>>}

\* "A", "a", "1", " ", U+0130, U+10428 DESERET SMALL LETTER LONG I
CaseAlphabet == {<<65>>, <<97>>, <<49>>, <<32>>, <<304>>, <<55297, 56360>>}

\* the string the next call is given: str, or what the last call returned
Arg == IF calls = <<>> THEN str ELSE rets[Len(rets)].val

\* another call can be made on Arg
CanCall ==
  /\ Len(calls) < MaxCalls
  /\ calls # <<>> => rets[Len(rets)].type = "string"

Return(fn, ret) ==
  /\ calls' = Append(calls, fn)
  /\ rets' = Append(rets, ret)
  /\ UNCHANGED <<str, length, chars, args, value>>

Words == calls = <<>> /\ Return("words", ArrayRet(words(str)))

CamelCase == CanCall /\ Return("camelCase", StringRet(camelCase(Arg)))

ConstantCase == CanCall /\ Return("constantCase", StringRet(constantCase(Arg)))

KebabCase == CanCall /\ Return("kebabCase", StringRet(kebabCase(Arg)))

LowerCase == CanCall /\ Return("lowerCase", StringRet(lowerCase(Arg)))

PascalCase == CanCall /\ Return("pascalCase", StringRet(pascalCase(Arg)))

SnakeCase == CanCall /\ Return("snakeCase", StringRet(snakeCase(Arg)))

StartCase == CanCall /\ Return("startCase", StringRet(startCase(Arg)))

UpperCase == CanCall /\ Return("upperCase", StringRet(upperCase(Arg)))

NoCalls ==
  /\ length = 0
  /\ chars = Undefined
  /\ args = <<>>
  /\ value = UndefinedValue
  /\ calls = <<>>
  /\ rets = <<>>

\* the segmenter alone
InitWords == str \in StringsOf(WordsAlphabet, MaxWordsLen) /\ NoCalls

NextWords == Words

SpecWords == InitWords /\ [][NextWords]_vars

\* the case converters
Init == str \in StringsOf(CaseAlphabet, MaxCaseLen) /\ NoCalls

Next ==
  \/ CamelCase
  \/ ConstantCase
  \/ KebabCase
  \/ LowerCase
  \/ PascalCase
  \/ SnakeCase
  \/ StartCase
  \/ UpperCase

Spec == Init /\ [][Next]_vars

MaxEscapeLen == 3

\* "&", "<", ">", the double quote, "'", "a", ";"
EscapeAlphabet == {<<38>>, <<60>>, <<62>>, <<34>>, <<39>>, <<97>>, <<59>>}

Escape == CanCall /\ Return("escape", StringRet(escape(Arg)))

\* escape
InitEscape == str \in StringsOf(EscapeAlphabet, MaxEscapeLen) /\ NoCalls

NextEscape == Escape

SpecEscape == InitEscape /\ [][NextEscape]_vars

MaxPadStrLen == 3
MaxPadLength == 6

\* "a", " ", tab
PadAlphabet == {<<97>>, <<32>>, <<9>>}

\* what the caller passes as chars: nothing, "", " ", "-", "-+"
PadChars ==
  {Undefined, StringArg(<<>>), StringArg(<<32>>), StringArg(<<45>>),
   StringArg(<<45, 43>>)}

\* chars = " " : the default of the parameter
PadFill == IF chars = Undefined THEN <<32>> ELSE chars.val

Pad == CanCall /\ Return("pad", StringRet(pad(Arg, length, PadFill)))

Trim == CanCall /\ Return("trim", trim(Arg, chars))

\* pad and trim
InitPad ==
  /\ str \in StringsOf(PadAlphabet, MaxPadStrLen)
  /\ length \in -1..MaxPadLength
  /\ chars \in PadChars
  /\ args = <<>>
  /\ value = UndefinedValue
  /\ calls = <<>>
  /\ rets = <<>>

NextPad == Pad \/ Trim

SpecPad == InitPad /\ [][NextPad]_vars

MaxReverseLen == 4

\* code units: "a", "b", a high surrogate D83D, a low surrogate DD25
ReverseAlphabet == {<<97>>, <<98>>, <<55357>>, <<56613>>}

ReverseString == CanCall /\ Return("reverseString", StringRet(reverseString(Arg)))

\* reverseString
InitReverse == str \in StringsOf(ReverseAlphabet, MaxReverseLen) /\ NoCalls

NextReverse == ReverseString

SpecReverse == InitReverse /\ [][NextReverse]_vars

MaxTrimLen == 3

\* "x", "y", "a"
TrimAlphabet == {<<120>>, <<121>>, <<97>>}

\* what the caller passes as chars: nothing, "", "x", "xy", [], ["x"],
\* ["x", "y"], ["xy"]
TrimChars ==
  {Undefined, StringArg(<<>>), StringArg(<<120>>), StringArg(<<120, 121>>),
   ArrayArg(<<>>), ArrayArg(<<<<120>>>>), ArrayArg(<<<<120>>, <<121>>>>),
   ArrayArg(<<<<120, 121>>>>)}

TrimStart == CanCall /\ Return("trimStart", trimStart(Arg, chars))

TrimEnd == CanCall /\ Return("trimEnd", trimEnd(Arg, chars))

\* trimStart, trimEnd and trim
InitTrim ==
  /\ str \in StringsOf(TrimAlphabet, MaxTrimLen)
  /\ length = 0
  /\ chars \in TrimChars
  /\ args = <<>>
  /\ value = UndefinedValue
  /\ calls = <<>>
  /\ rets = <<>>

NextTrim == TrimStart \/ TrimEnd \/ Trim

SpecTrim == InitTrim /\ [][NextTrim]_vars

MaxFormatLen == 4

MaxArgs == 2

\* "%", "s", "d", "v", "a"
FormatAlphabet == {<<37>>, <<115>>, <<100>>, <<118>>, <<97>>}

\* "a" and -10
ArgValues == {StringValue(<<97>>), NumberValue(-10)}

\* the sequences of at most n elements of S
SeqsOf(S, n) == UNION {[1..k -> S] : k \in 0..n}

Sprintf == CanCall /\ Return("sprintf", StringRet(sprintf(Arg, args)))

\* sprintf
InitSprintf ==
  /\ str \in StringsOf(FormatAlphabet, MaxFormatLen)
  /\ length = 0
  /\ chars = Undefined
  /\ args \in SeqsOf(ArgValues, MaxArgs)
  /\ value = UndefinedValue
  /\ calls = <<>>
  /\ rets = <<>>

NextSprintf == Sprintf

SpecSprintf == InitSprintf /\ [][NextSprintf]_vars

\* a value is made of at most MaxNodes scalars, arrays and objects
MaxNodes == 4

\* "aB", "a_b", "Ab"
KeyNames == {<<97, 66>>, <<97, 95, 98>>, <<65, 98>>}

\* null, 1, a Date
Scalars == {NullValue, NumberValue(1), DateValue}

\* m different keys in some order
KeySeqs(m) == {ks \in [1..m -> KeyNames] : \A i, j \in 1..m : ks[i] = ks[j] => i = j}

RECURSIVE ValuesOfSize(_)
\* the sequences of values made of n nodes in all
RECURSIVE ListsOfSize(_)
ListsOfSize(n) ==
  IF n = 0 THEN {<<>>}
  ELSE UNION {{<<v>> \o l : v \in ValuesOfSize(m), l \in ListsOfSize(n - m)} :
              m \in 1..n}

\* the values made of n nodes
ValuesOfSize(n) ==
  (IF n = 1 THEN Scalars ELSE {})
    \cup {ArrayValue(l) : l \in ListsOfSize(n - 1)}
    \cup UNION {{ObjectValue([k \in 1..Len(l) |-> Entry(ks[k], l[k])]) :
                   ks \in KeySeqs(Len(l))} : l \in ListsOfSize(n - 1)}

ToSnakeCase == calls = <<>> /\ Return("toSnakeCase", ValueRet(toSnakeCase(value)))

ConvertKeysWithBoth ==
  calls = <<>> /\ Return("convertKeysWithBoth", ValueRet(convertKeysWithBoth(value)))

\* toSnakeCase and convertKeysWithBoth
InitKeys ==
  /\ str = <<>>
  /\ length = 0
  /\ chars = Undefined
  /\ args = <<>>
  /\ value \in UNION {ValuesOfSize(n) : n \in 1..MaxNodes}
  /\ calls = <<>>
  /\ rets = <<>>

NextKeys == ToSnakeCase \/ ConvertKeysWithBoth

SpecKeys == InitKeys /\ [][NextKeys]_vars

(***************************************************************************)
(* The segmenter (SpecWords)                                               *)
(***************************************************************************)

\* a code point the pattern is meant to put in a token
IsWordCodePoint(c) ==
  IsL(c) \/ IsDigit(c) \/ IsEmojiPresentation(c) \/ IsExtendedPictographic(c)

\* least unit index p >= from at which tok occurs in T, 0 if there is none
RECURSIVE FindFrom(_, _, _)
FindFrom(T, tok, from) ==
  IF from + Len(tok) - 1 > Len(T) THEN 0
  ELSE IF SubSeq(T, from, from + Len(tok) - 1) = tok THEN from
  ELSE FindFrom(T, tok, from + 1)

\* the tokens traced back into T one after the other, each from the end of
\* the one before: their spans <<first unit, last unit>>, or <<0, 0>> once
\* a token is not found
RECURSIVE TraceBack(_, _, _)
TraceBack(T, toks, from) ==
  IF toks = <<>> THEN <<>>
  ELSE LET p == FindFrom(T, Head(toks), from)
       IN IF p = 0 \/ Head(toks) = <<>> THEN <<<<0, 0>>>>
          ELSE <<<<p, p + Len(Head(toks)) - 1>>>>
               \o TraceBack(T, Tail(toks), p + Len(Head(toks)))

\* unit indices at which a code point of T starts
RECURSIVE StartsFrom(_, _)
StartsFrom(T, i) ==
  IF i > Len(T) THEN {} ELSE {i} \cup StartsFrom(T, i + WidthAt(T, i))

InSpans(spans, i, w) ==
  \E k \in 1..Len(spans) : spans[k][1] <= i /\ i + w - 1 <= spans[k][2]

\* C1: the tokens words returns trace back to spans of the input that are
\* disjoint and in source order (each found at or after the end of the one
\* before), every letter, digit and emoji code point of the input lies in
\* a span, and every code point outside the spans is a separator; so the
\* result is empty exactly when the input has no such code point.
C1_TokensCoverWordCodePoints ==
  calls = <<"words">> =>
    LET toks == rets[1].val
        spans == TraceBack(str, toks, 1)
    IN /\ \A k \in 1..Len(spans) : spans[k] # <<0, 0>>
       /\ Len(spans) = Len(toks)
       /\ \A k \in 1..Len(spans) - 1 : spans[k][2] < spans[k + 1][1]
       /\ \A i \in StartsFrom(str, 1) :
            IsWordCodePoint(CodePointAt(str, i)) <=> InSpans(spans, i, WidthAt(str, i))
       /\ (toks = <<>>) <=>
            (\A i \in StartsFrom(str, 1) : ~IsWordCodePoint(CodePointAt(str, i)))

\* "1_" then U+4E2D then the emoji: three tokens around a separator
C1_Witness ==
  /\ calls = <<"words">>
  /\ str = <<49, 95, 20013, 55357, 56613>>
  /\ rets[1].val = <<<<49>>, <<20013>>, <<55357, 56613>>>>

\* str is n >= 2 capitals directly followed by m >= 1 lower-case letters
IsAcronymThenLower(s) ==
  LET e == RunEnd("Lu", s, 1)
  IN /\ e > 1
     /\ LastStart(s, 1, e) > 1
     /\ e <= Len(s)
     /\ RunEnd("Ll", s, e) = Len(s) + 1

\* C2: for n >= 2 capitals followed by m >= 1 lower-case letters, words
\* returns two tokens: the first n-1 capitals, then the last capital with
\* the lower-case letters.
C2_AcronymThenCapitalized ==
  (calls = <<"words">> /\ IsAcronymThenLower(str)) =>
    LET last == LastStart(str, 1, RunEnd("Lu", str, 1))
    IN rets[1].val = <<SubSeq(str, 1, last - 1), SubSeq(str, last, Len(str))>>

\* "A", U+10400, "A", "a" gives "A" U+10400 and "Aa"
C2_Witness ==
  /\ calls = <<"words">>
  /\ str = <<65, 55297, 56320, 65, 97>>
  /\ rets[1].val = <<<<65, 55297, 56320>>, <<65, 97>>>>

(***************************************************************************)
(* The case converters (Spec)                                              *)
(***************************************************************************)

\* first-upper-rest-lower on a token: the first code point in upper case,
\* the remainder in lower case
FirstUpperRestLower(tok) ==
  IF tok = <<>> THEN <<>>
  ELSE toUpperCase(SubSeq(tok, 1, WidthAt(tok, 1)))
       \o toLowerCase(SubSeq(tok, WidthAt(tok, 1) + 1, Len(tok)))

ApplyRule(rule, tok) ==
  CASE rule = "all-lower" -> toLowerCase(tok)
    [] rule = "all-upper" -> toUpperCase(tok)
    [] rule = "first-upper-rest-lower" -> FirstUpperRestLower(tok)

\* the table of conventions: rule of the first token, rule of the other
\* tokens, joiner
Convention(fn) ==
  CASE fn = "camelCase" ->
         [first |-> "all-lower", rest |-> "first-upper-rest-lower", joiner |-> <<>>]
    [] fn = "pascalCase" ->
         [first |-> "first-upper-rest-lower", rest |-> "first-upper-rest-lower",
          joiner |-> <<>>]
    [] fn = "snakeCase" ->
         [first |-> "all-lower", rest |-> "all-lower", joiner |-> <<95>>]
    [] fn = "kebabCase" ->
         [first |-> "all-lower", rest |-> "all-lower", joiner |-> <<45>>]
    [] fn = "constantCase" ->
         [first |-> "all-upper", rest |-> "all-upper", joiner |-> <<95>>]
    [] fn = "startCase" ->
         [first |-> "first-upper-rest-lower", rest |-> "first-upper-rest-lower",
          joiner |-> <<32>>]
    [] fn = "lowerCase" ->
         [first |-> "all-lower", rest |-> "all-lower", joiner |-> <<32>>]
    [] fn = "upperCase" ->
         [first |-> "all-upper", rest |-> "all-upper", joiner |-> <<32>>]

Converters ==
  {"camelCase", "pascalCase", "snakeCase", "kebabCase", "constantCase",
   "startCase", "lowerCase", "upperCase"}

\* the tokens mapped by the convention's rules and joined by its joiner
Converted(fn, toks) ==
  Join([k \in 1..Len(toks) |->
          ApplyRule(IF k = 1 THEN Convention(fn).first ELSE Convention(fn).rest,
                    toks[k])],
       Convention(fn).joiner)

\* C3: each converter returns the tokens of words(str) mapped by its
\* per-token rule and joined by its joiner (the empty string when there is
\* no token).
C3_ConvertersMapAndJoin ==
  (Len(calls) = 1 /\ calls[1] \in Converters) =>
    rets[1].val = Converted(calls[1], words(str))

\* the first code point of s is a lower-case letter
StartsLower(s) == s # <<>> /\ IsLl(CodePointAt(s, 1))

\* the first code point of s is an upper-case letter
StartsUpper(s) == s # <<>> /\ IsLu(CodePointAt(s, 1))

\* C4 as stated: whenever str has a token, camelCase(pascalCase(str))
\* starts with a lower-case letter and pascalCase(camelCase(str)) with an
\* upper-case letter.
C4_Original ==
  words(str) # <<>> =>
    /\ calls = <<"pascalCase", "camelCase">> => StartsLower(rets[2].val)
    /\ calls = <<"camelCase", "pascalCase">> => StartsUpper(rets[2].val)

\* a letter of the basic multilingual plane whose upper case and lower
\* case are one letter each: here the ASCII letters
HasSimpleCasePair(c) == c \in 65..90 \/ c \in 97..122

\* the first token of s begins with such a letter
FirstTokenStartsCased(s) ==
  words(s) # <<>> /\ HasSimpleCasePair(CodePointAt(Head(words(s)), 1))

\* C4, amended: when the first token of str begins with a cased letter
\* that has one-to-one case mappings in the basic multilingual plane,
\* camelCase(pascalCase(str)) starts with a lower-case letter and
\* pascalCase(camelCase(str)) with an upper-case letter.
C4_FirstCharacterCase ==
  FirstTokenStartsCased(str) =>
    /\ calls = <<"pascalCase", "camelCase">> => StartsLower(rets[2].val)
    /\ calls = <<"camelCase", "pascalCase">> => StartsUpper(rets[2].val)

\* " A1": pascalCase gives "A1", camelCase of that "a1"
C4_Witness ==
  /\ str = <<32, 65, 49>>
  /\ calls = <<"pascalCase", "camelCase">>
  /\ rets = <<StringRet(<<65, 49>>), StringRet(<<97, 49>>)>>

\* C5 as stated: snakeCase(snakeCase(str)) = snakeCase(str) for every str.
C5_Original ==
  calls = <<"snakeCase", "snakeCase">> => rets[2].val = rets[1].val

\* toLowerCase maps the code point c to one code point: an upper-case
\* letter to a lower-case letter, any other code point to itself
LowersOneToOne(c) ==
  IF IsLu(c) THEN Len(LowerOf(c)) = 1 /\ IsLl(LowerOf(c)[1])
  ELSE LowerOf(c) = <<c>>

\* C5, amended: snakeCase(snakeCase(str)) = snakeCase(str) for every str
\* whose code points toLowerCase maps one to one, upper-case letters to
\* lower-case letters and every other code point to itself.
C5_SnakeCaseIdempotent ==
  (/\ calls = <<"snakeCase", "snakeCase">>
   /\ \A i \in StartsFrom(str, 1) : LowersOneToOne(CodePointAt(str, i)))
    => rets[2].val = rets[1].val

\* "AAa": "a_aa" after one pass and after two
C5_Witness ==
  /\ str = <<65, 65, 97>>
  /\ calls = <<"snakeCase", "snakeCase">>
  /\ rets = <<StringRet(<<97, 95, 97, 97>>), StringRet(<<97, 95, 97, 97>>)>>

(***************************************************************************)
(* escape (SpecEscape)                                                     *)
(***************************************************************************)

\* the entity of a guarded character, the character itself otherwise
Entity(u) ==
  CASE u = 38 -> <<38, 97, 109, 112, 59>>       \* &amp;
    [] u = 60 -> <<38, 108, 116, 59>>           \* &lt;
    [] u = 62 -> <<38, 103, 116, 59>>           \* &gt;
    [] u = 34 -> <<38, 113, 117, 111, 116, 59>> \* &quot;
    [] u = 39 -> <<38, 35, 51, 57, 59>>         \* &#39;
    [] OTHER -> <<u>>

Guarded(s) == \E i \in 1..Len(s) : s[i] \in {38, 60, 62, 34, 39}

\* C6: escape(str) is str with each of & < > " ' replaced by its entity and
\* every other character unchanged; it is str when str has none of the
\* five, and escaping the result again changes it whenever str has one.
C6_EscapeReplacesEach ==
  /\ (calls # <<>> /\ calls[1] = "escape") =>
       /\ rets[1].val = Join([i \in 1..Len(str) |-> Entity(str[i])], <<>>)
       /\ ~Guarded(str) => rets[1].val = str
  /\ calls = <<"escape", "escape">> =>
       (Guarded(str) => rets[2].val # rets[1].val)

\* a<' escaped twice
C6_Witness ==
  /\ str = <<97, 60, 39>>
  /\ calls = <<"escape", "escape">>
  /\ rets[1].val = <<97, 38, 108, 116, 59, 38, 35, 51, 57, 59>>
  /\ Len(rets[2].val) = 18

(***************************************************************************)
(* pad and trim (SpecPad)                                                  *)
(***************************************************************************)

Max(a, b) == IF a >= b THEN a ELSE b

\* C7 as stated: the length of pad(str, length, fill) is
\* max(length, length of str) for every fill pad accepts.
C7_Original ==
  (calls # <<>> /\ calls[1] = "pad") =>
    Len(rets[1].val) = Max(length, Len(str))

\* C7, amended: for every non-empty fill string (the default " " too) the
\* length of pad(str, length, fill) is max(length, length of str).
C7_PadLength ==
  (calls # <<>> /\ calls[1] = "pad" /\ PadFill # <<>>) =>
    Len(rets[1].val) = Max(length, Len(str))

\* "a" padded to 6 with "-+"
C7_Witness ==
  /\ calls = <<"pad">>
  /\ str = <<97>>
  /\ length = 6
  /\ chars = StringArg(<<45, 43>>)
  /\ Len(rets[1].val) = 6

\* fill repeated and cut to n units, nothing when fill is empty
Repeated(fill, n) ==
  IF fill = <<>> THEN <<>> ELSE [k \in 1..n |-> fill[((k - 1) % Len(fill)) + 1]]

\* pad(str, length, fill) is leftPad + str + rightPad with pads of the
\* widths floor(total/2) and total - floor(total/2), each the fill repeated
\* and truncated; str itself when it is already long enough
PadShape(fill) ==
  IF Len(str) < length
  THEN LET total == length - Len(str)
           leftPad == Repeated(fill, total \div 2)
           rightPad == Repeated(fill, total - (total \div 2))
       IN /\ Len(leftPad) = total \div 2
          /\ Len(rightPad) = total - (total \div 2)
          /\ rets[1].val = leftPad \o str \o rightPad
  ELSE rets[1].val = str

\* C8 as stated: for every fill.
C8_Original ==
  (calls # <<>> /\ calls[1] = "pad") => PadShape(PadFill)

\* C8, amended: for every non-empty fill, when length of str < length the
\* result is leftPad + str + rightPad, leftPad of floor(total/2) and
\* rightPad of total - floor(total/2) units, each the fill repeated and
\* truncated; otherwise the result is str.
C8_PadSplitsEvenly ==
  (calls # <<>> /\ calls[1] = "pad" /\ PadFill # <<>>) => PadShape(PadFill)

\* "a" padded to 4 with "-+": "-a-+"
C8_Witness ==
  /\ calls = <<"pad">>
  /\ str = <<97>>
  /\ length = 4
  /\ chars = StringArg(<<45, 43>>)
  /\ rets[1].val = <<45, 97, 45, 43>>

\* C9 as stated: trim(pad(str, length, " ")) = str when str neither starts
\* nor ends with a space.  (chars left out: pad fills with its default " "
\* and trim strips white space.)
C9_Original ==
  (/\ calls = <<"pad", "trim">>
   /\ chars = Undefined
   /\ str # <<>> => (str[1] # 32 /\ str[Len(str)] # 32))
    => rets[2].val = str

\* C9, amended: trim(pad(str, length, " ")) = str when str neither starts
\* nor ends with a white-space character.
C9_TrimUndoesPad ==
  (/\ calls = <<"pad", "trim">>
   /\ chars = Undefined
   /\ str # <<>> => (~IsWhiteSpace(str[1]) /\ ~IsWhiteSpace(str[Len(str)])))
    => rets[2].val = str

\* "a a" padded to 6 and trimmed
C9_Witness ==
  /\ calls = <<"pad", "trim">>
  /\ chars = Undefined
  /\ str = <<97, 32, 97>>
  /\ length = 6
  /\ rets[1].val = <<32, 97, 32, 97, 32, 32>>
  /\ rets[2].val = str

(***************************************************************************)
(* reverseString (SpecReverse)                                             *)
(***************************************************************************)

\* C10 as stated: reverseString(reverseString(str)) = str for every string
\* of code units.
C10_Original ==
  calls = <<"reverseString", "reverseString">> => rets[2].val = str

\* the unit at i is a surrogate that belongs to no pair
IsLoneAt(s, i) ==
  /\ ~IsPairAt(s, i)
  /\ ~(i > 1 /\ IsPairAt(s, i - 1))

\* an unpaired low surrogate directly followed by an unpaired high one
LowThenHigh(s) ==
  \E i \in 1..Len(s) - 1 :
    /\ IsLowSurrogate(s[i]) /\ IsLoneAt(s, i)
    /\ IsHighSurrogate(s[i + 1]) /\ IsLoneAt(s, i + 1)

\* C10, amended: reverseString(reverseString(str)) = str for every str in
\* which no unpaired low surrogate is directly followed by an unpaired high
\* surrogate, so for every well-formed string.
C10_ReverseInvolution ==
  (calls = <<"reverseString", "reverseString">> /\ ~LowThenHigh(str))
    => rets[2].val = str

\* "a", the pair, "b": the pair stays whole
C10_Witness ==
  /\ calls = <<"reverseString", "reverseString">>
  /\ str = <<97, 55357, 56613, 98>>
  /\ rets[1].val = <<98, 55357, 56613, 97>>
  /\ rets[2].val = str

(***************************************************************************)
(* trimStart, trimEnd and trim (SpecTrim)                                  *)
(***************************************************************************)

TrimFunctions == {"trimStart", "trimEnd", "trim"}

\* C11: a call of trimStart, trimEnd or trim whose chars is a string of
\* more than one character raises the input-validation error.
C11_MultiCharacterStringThrows ==
  \A k \in 1..Len(calls) :
    (calls[k] \in TrimFunctions /\ chars.kind = "string" /\ Len(chars.val) > 1)
      => rets[k].type = "error"

\* C12 as stated: an error is raised only when chars is a string of more
\* than one character; with chars left out, a one-character string, the
\* empty string or a list the trim functions return a string.
C12_Original ==
  \A k \in 1..Len(calls) :
    /\ rets[k].type = "error" => (chars.kind = "string" /\ Len(chars.val) > 1)
    /\ ~(chars.kind = "string" /\ Len(chars.val) > 1) => rets[k].type = "string"

\* C12, amended: an error is raised only when chars is a string whose
\* length is not 1 (the empty string too); with chars left out, a
\* one-character string or a list of any length, trimStart, trimEnd and
\* trim return a string.
C12_ErrorOnlyForStringNotOfLengthOne ==
  \A k \in 1..Len(calls) :
    /\ rets[k].type = "error" => (chars.kind = "string" /\ Len(chars.val) # 1)
    /\ ~(chars.kind = "string" /\ Len(chars.val) # 1) => rets[k].type = "string"

\* trimEnd of "axy" with the list ["x", "y"] returns "a"
C12_Witness ==
  /\ calls = <<"trimEnd">>
  /\ str = <<97, 120, 121>>
  /\ chars = ArrayArg(<<<<120>>, <<121>>>>)
  /\ rets = <<StringRet(<<97>>)>>

\* chars is an explicit set of characters: a one-character string or a
\* list of one-character strings
IsCharacterSet(c) ==
  \/ c.kind = "string" /\ Len(c.val) = 1
  \/ c.kind = "array" /\ \A k \in 1..Len(c.list) : Len(c.list[k]) = 1

\* the characters of the set
CharacterSet(c) ==
  IF c.kind = "string" THEN {c.val[1]} ELSE {c.list[k][1] : k \in 1..Len(c.list)}

\* length of the longest prefix of s made of characters of S
PrefixIn(s, S) ==
  CHOOSE p \in 0..Len(s) :
    /\ \A i \in 1..p : s[i] \in S
    /\ p < Len(s) => s[p + 1] \notin S

\* length of the longest suffix of s made of characters of S
SuffixIn(s, S) ==
  CHOOSE q \in 0..Len(s) :
    /\ \A i \in Len(s) - q + 1..Len(s) : s[i] \in S
    /\ q < Len(s) => s[Len(s) - q] \notin S

\* s without its first p and its last q units, empty when they overlap
Without(s, p, q) == IF p + q >= Len(s) THEN <<>> ELSE SubSeq(s, p + 1, Len(s) - q)

\* C16: with an explicit character set, trimStart removes exactly the
\* longest prefix of str in the set, trimEnd the longest such suffix and
\* trim both; what is left is a piece of str that does not start (trimStart,
\* trim) or end (trimEnd, trim) with a character of the set, and the same
\* call on the result returns the result.
C16_TrimRemovesMaximalRuns ==
  (calls # <<>> /\ calls[1] \in TrimFunctions /\ IsCharacterSet(chars)) =>
    LET S == CharacterSet(chars)
        out == rets[1].val
        p == IF calls[1] = "trimEnd" THEN 0 ELSE PrefixIn(str, S)
        q == IF calls[1] = "trimStart" THEN 0 ELSE SuffixIn(str, S)
    IN /\ rets[1].type = "string"
       /\ out = Without(str, p, q)
       /\ (calls[1] # "trimEnd" /\ out # <<>>) => out[1] \notin S
       /\ (calls[1] # "trimStart" /\ out # <<>>) => out[Len(out)] \notin S
       /\ (Len(calls) >= 2 /\ calls[2] = calls[1]) => rets[2] = rets[1]

\* trim of "xay" with ["x", "y"] is "a", and trim of that is "a"
C16_Witness ==
  /\ calls = <<"trim", "trim">>
  /\ str = <<120, 97, 121>>
  /\ chars = ArrayArg(<<<<120>>, <<121>>>>)
  /\ rets = <<StringRet(<<97>>), StringRet(<<97>>)>>

(***************************************************************************)
(* Case transitions inside a token (SpecWords)                             *)
(***************************************************************************)

\* a lower-case letter immediately followed by an upper-case letter in t
HasLowerThenUpper(t) ==
  \E i \in StartsFrom(t, 1) :
    /\ IsLl(CodePointAt(t, i))
    /\ i + WidthAt(t, i) <= Len(t)
    /\ IsLu(CodePointAt(t, i + WidthAt(t, i)))

IsCased(c) == IsLu(c) \/ IsLl(c)

\* a letter without case together with an upper- or lower-case letter in t
MixesCaselessAndCased(t) ==
  /\ \E i \in StartsFrom(t, 1) : IsL(CodePointAt(t, i)) /\ ~IsCased(CodePointAt(t, i))
  /\ \E i \in StartsFrom(t, 1) : IsCased(CodePointAt(t, i))

\* C17: no token of words has a lower-case letter immediately followed by
\* an upper-case letter, and no token has both a caseless letter and a
\* cased one.
C17_NoTransitionInsideToken ==
  calls = <<"words">> =>
    \A k \in 1..Len(rets[1].val) :
      /\ ~HasLowerThenUpper(rets[1].val[k])
      /\ ~MixesCaselessAndCased(rets[1].val[k])

(***************************************************************************)
(* sprintf (SpecSprintf)                                                   *)
(***************************************************************************)

\* the units at which the specifiers of f start
SpecifierStarts(f) == {p \in 1..Len(f) : IsSpecifierAt(f, p)}

\* the i-th of them
NthStart(f, i) ==
  CHOOSE p \in SpecifierStarts(f) :
    Cardinality({q \in SpecifierStarts(f) : q < p}) = i - 1

\* f from unit p on with its i-th and later specifiers filled in: the
\* string form of the argument while there is one, the specifier's own
\* two characters after that
RECURSIVE Filled(_, _, _, _)
Filled(f, p, a, i) ==
  IF i > Cardinality(SpecifierStarts(f)) THEN SubSeq(f, p, Len(f))
  ELSE LET q == NthStart(f, i)
       IN SubSeq(f, p, q - 1)
          \o (IF i <= Len(a) THEN String(a[i]) ELSE SubSeq(f, q, q + 1))
          \o Filled(f, q + 2, a, i + 1)

\* C13: sprintf replaces the i-th specifier by the string form of the i-th
\* argument while i is at most the number of arguments, and leaves every
\* specifier after that as its own text.
C13_SpecifiersBeyondArgumentsKept ==
  \A k \in 1..Len(calls) :
    calls[k] = "sprintf" =>
      LET f == IF k = 1 THEN str ELSE rets[k - 1].val
      IN rets[k].val = Filled(f, 1, args, 1)

(***************************************************************************)
(* The key converters (SpecKeys)                                           *)
(***************************************************************************)

\* out is v with every key of every mapping in it, at any depth, replaced
\* by snakeCase of the key
RECURSIVE SnakeCased(_, _)
SnakeCased(v, out) ==
  IF v.kind = "array"
  THEN /\ out.kind = "array"
       /\ Len(out.items) = Len(v.items)
       /\ \A k \in 1..Len(v.items) : SnakeCased(v.items[k], out.items[k])
  ELSE IF v.kind = "object"
  THEN /\ out.kind = "object"
       /\ \A i \in 1..Len(v.entries) :
            \E j \in 1..Len(out.entries) :
              out.entries[j].key = snakeCase(v.entries[i].key)
       /\ \A j \in 1..Len(out.entries) :
            \E i \in 1..Len(v.entries) :
              /\ out.entries[j].key = snakeCase(v.entries[i].key)
              /\ SnakeCased(v.entries[i].value, out.entries[j].value)
  ELSE out = v

\* C14: in the result of toSnakeCase every key of every mapping, at any
\* depth through arrays and mappings, is snakeCase of the original key and
\* its value is the converted original value.
C14_KeysAreSnakeCase ==
  calls = <<"toSnakeCase">> => SnakeCased(value, rets[1].val)

HasKey(entries, key) == \E k \in 1..Len(entries) : entries[k].key = key

Lookup(entries, key) ==
  entries[CHOOSE k \in 1..Len(entries) : entries[k].key = key].value

\* the original key and the two keys derived from it
KeyForms(key) == {key, snakeKey(key), camelKey(key)}

NoKeyCollision(entries) ==
  \A i, j \in 1..Len(entries) :
    i # j => KeyForms(entries[i].key) \cap KeyForms(entries[j].key) = {}

\* C15: for a mapping whose keys do not collide, the result of
\* convertKeysWithBoth has an entry for each original key, for its
\* snake_case key and for its camelCase key, and the last two hold the
\* converted value.
C15_DerivedEntriesHoldConverted ==
  (calls = <<"convertKeysWithBoth">> /\ value.kind = "object"
     /\ NoKeyCollision(value.entries)) =>
    LET out == rets[1].val.entries
    IN \A i \in 1..Len(value.entries) :
         LET key == value.entries[i].key
             converted == IF value.entries[i].value.kind \in {"array", "object"}
                          THEN convertKeysWithBoth(value.entries[i].value)
                          ELSE value.entries[i].value
         IN /\ HasKey(out, key)
            /\ HasKey(out, snakeKey(key))
            /\ HasKey(out, camelKey(key))
            /\ Lookup(out, snakeKey(key)) = converted
            /\ Lookup(out, camelKey(key)) = converted

====
